---- MODULE Spec2Model ----
(***************************************************************************)
(* Model of faust.app.App (src/faust/app.py): the stream registry, the     *)
(* lazily created transport/producer pair, the publish pipeline            *)
(* (send/_send) with the encoding of a message, the start/stop sweeps      *)
(* (on_start/on_stop) and the name generator (_new_name).                  *)
(*                                                                         *)
(* Every `await` of the source is a suspension point: the code between two *)
(* awaits runs as one atomic action, and the completion of the awaited     *)
(* collaborator call (returning or raising) is the next action of that     *)
(* coroutine.  Collaborators (Stream, Producer, transport.from_url) are the *)
(* environment: their outcomes are chosen nondeterministically.            *)
(***************************************************************************)
EXTENDS Integers, Sequences, FiniteSets, TLC

(* ---------------------------------------------------------------------- *)
(* Bounds                                                                  *)
(* ---------------------------------------------------------------------- *)
\* number of send() calls issued on the application
MaxSends == 2
\* number of on_start/on_stop sweeps run on the application
MaxRuns == 2
\* number of distinct stream names in use
MaxStreams == 3

(* ---------------------------------------------------------------------- *)
(* Values                                                                  *)
(* ---------------------------------------------------------------------- *)
None == 0

\* The empty stream name, and the stream object that carries it.
NoName == 0
Nameless == 0

\* Stream objects handed to add_source, and the name each one carries: names
\* are 1..MaxStreams, and objects s and s + MaxStreams are two streams of the
\* same name.
StreamObjs == 0..(2 * MaxStreams)
StreamName(s) == IF s = Nameless THEN NoName ELSE ((s - 1) % MaxStreams) + 1

Sends == 1..MaxSends

\* wait defaults to True in the signature of _send
DefaultWait == TRUE

VARIABLES
    streams,           \* self._streams: the registered stream objects, in insertion order
    addResult,         \* outcome of the last add_source call
    producer,          \* self._producer (None or the instance)
    transport,         \* self._transport (None or the instance)
    producerFrom,      \* the transport instance whose create_producer built the producer
    producerStarted,   \* self._producer_started
    producersCreated,  \* number of producers constructed by transport.create_producer
    transportsCreated, \* number of transports constructed by transport.from_url
    startCalls,        \* number of invocations of producer.start()
    startStatus,       \* producer.start(): "none", "running", "done", "raised"
    sendPc,            \* per send: "new", "start_wait", "dispatch_wait", "done"
    sendResult,        \* how the send that ended last ended: "none", "returned",
                       \* "raised", "encode_raised" (raised before _send was called)
    sendWait,          \* per send in flight: the wait argument given to send()
    sendOp,            \* per send in flight: producer operation the message was handed to
    sendAt,            \* per send in flight: startStatus at the moment of the dispatch
    lcPc,              \* sweep coroutine: "idle", "start_wait", "stop_wait", "producer_stop_wait"
    lcKind,            \* last sweep begun: "none", "start", "stop"
    lcRegs,            \* registry contents when the last sweep began
    lcList,            \* the sequence the sweep iterates over
    lcIdx,             \* position of the sweep in lcList
    lcTrace,           \* collaborator calls and completions of the last sweep, in order
    lcResult,          \* outcome of the last finished sweep: "none", "ok", "raised"
    lcErr,             \* what the last finished sweep raised
    runs,              \* number of finished sweeps
    encIn,             \* arguments of the send whose encoding is examined
    encOut,            \* <<>>, or the outcome of encoding encIn
    index,             \* App._index: the counter behind the generated names
    prefixOf,          \* per application: the prefix its names are asked with
    issued             \* the names generated so far: [app, name], in call order

regVars  == <<streams, addResult>>
provVars == <<producer, transport, producerFrom, producersCreated, transportsCreated>>
prodVars == <<producerStarted, startCalls, startStatus>>
sendVars == <<sendPc, sendResult, sendWait, sendOp, sendAt>>
lcVars   == <<lcPc, lcKind, lcRegs, lcList, lcIdx, lcTrace, lcResult, lcErr, runs>>
encVars  == <<encIn, encOut>>
nameVars == <<index, prefixOf, issued>>
sideVars == <<encVars, nameVars>>
vars     == <<regVars, provVars, prodVars, sendVars, lcVars, sideVars>>

(* ---------------------------------------------------------------------- *)
(* Construction                                                            *)
(* ---------------------------------------------------------------------- *)
InitApp ==
    /\ streams = <<>>
    /\ addResult = "none"
    /\ producer = None
    /\ transport = None
    /\ producerFrom = None
    /\ producerStarted = FALSE
    /\ producersCreated = 0
    /\ transportsCreated = 0
    /\ startCalls = 0
    /\ startStatus = "none"
    /\ sendPc = [s \in Sends |-> "new"]
    /\ sendResult = "none"
    /\ sendWait = [s \in Sends |-> DefaultWait]
    /\ sendOp = [s \in Sends |-> "none"]
    /\ sendAt = [s \in Sends |-> "none"]
    /\ lcPc = "idle"
    /\ lcKind = "none"
    /\ lcRegs = <<>>
    /\ lcList = <<>>
    /\ lcIdx = 0
    /\ lcTrace = <<>>
    /\ lcResult = "none"
    /\ lcErr = [by |-> "none", s |-> 0]
    /\ runs = 0

(* ---------------------------------------------------------------------- *)
(* Stream registry                                                         *)
(* ---------------------------------------------------------------------- *)
Names(regs) == {StreamName(regs[i]) : i \in DOMAIN regs}

\* add_source without the membership test: the assignment rebinds the name
\* in place (an OrderedDict keeps the position of an existing key).
add_source_rebind(regs, s) ==
    IF StreamName(s) = NoName
    THEN [result |-> "AssertionError", streams |-> regs]
    ELSE IF StreamName(s) \in Names(regs)
    THEN [result |-> "ok",
          streams |-> [i \in DOMAIN regs |->
                         IF StreamName(regs[i]) = StreamName(s) THEN s ELSE regs[i]]]
    ELSE [result |-> "ok", streams |-> Append(regs, s)]

add_source(regs, s) ==
    IF StreamName(s) = NoName
    THEN [result |-> "AssertionError", streams |-> regs]
    ELSE IF StreamName(s) \in Names(regs)
    THEN [result |-> "ValueError", streams |-> regs]
    ELSE [result |-> "ok", streams |-> Append(regs, s)]

\* A caller registers stream object s.  Names are labels, so the streams
\* with new names are taken in the order of their numbers: s carries the next
\* unused name, or a name that is taken, or no name.
AddSource(s) ==
    LET r == add_source(streams, s) IN
    /\ \/ s = Nameless
       \/ StreamName(s) \in Names(streams)
       \/ s = Len(streams) + 1
    /\ streams' = r.streams
    /\ addResult' = r.result
    /\ UNCHANGED <<provVars, prodVars, sendVars, lcVars, sideVars>>

(* ---------------------------------------------------------------------- *)
(* Resource provisioner                                                    *)
(* ---------------------------------------------------------------------- *)
\* What a factory call (transport.from_url, transport.create_producer) can
\* do, TRUE for returning and FALSE for raising; one outcome where the handle
\* is present and the factory is not called.
Outcomes(handle) == IF handle = None THEN BOOLEAN ELSE {TRUE}

\* The transport property returning a new transport without keeping it in
\* self._transport.
transport_get_unkept(t, tc, tok) ==
    IF t = None
    THEN IF tok
         THEN [raised |-> FALSE, transport |-> None, tcreated |-> tc + 1]
         ELSE [raised |-> TRUE, transport |-> None, tcreated |-> tc]
    ELSE [raised |-> FALSE, transport |-> t, tcreated |-> tc]

\* The transport property.  tok: transport.from_url returns (else raises).
transport_get(t, tc, tok) ==
    IF t = None
    THEN IF tok
         THEN [raised |-> FALSE, transport |-> tc + 1, tcreated |-> tc + 1]
         ELSE [raised |-> TRUE, transport |-> None, tcreated |-> tc]
    ELSE [raised |-> FALSE, transport |-> t, tcreated |-> tc]

\* The producer property without the `is None` test: builds on every access.
producer_get_nomemo(p, pf, pc, t, tc, tok, pok) ==
    LET tr == transport_get(t, tc, tok) IN
    IF tr.raised
    THEN [raised |-> TRUE, producer |-> p, from |-> pf, pcreated |-> pc,
          transport |-> tr.transport, tcreated |-> tr.tcreated]
    ELSE IF pok
    THEN [raised |-> FALSE, producer |-> pc + 1, from |-> tr.transport,
          pcreated |-> pc + 1,
          transport |-> tr.transport, tcreated |-> tr.tcreated]
    ELSE [raised |-> TRUE, producer |-> p, from |-> pf, pcreated |-> pc,
          transport |-> tr.transport, tcreated |-> tr.tcreated]

\* The producer property building the producer from a transport of its own,
\* made by the factory and kept nowhere.
producer_get_own_transport(p, pf, pc, t, tc, tok, pok) ==
    IF p = None
    THEN IF tok /\ pok
         THEN [raised |-> FALSE, producer |-> pc + 1, from |-> tc + 1,
               pcreated |-> pc + 1, transport |-> t, tcreated |-> tc + 1]
         ELSE [raised |-> TRUE, producer |-> None, from |-> pf, pcreated |-> pc,
               transport |-> t, tcreated |-> tc]
    ELSE [raised |-> FALSE, producer |-> p, from |-> pf, pcreated |-> pc,
          transport |-> t, tcreated |-> tc]

\* The producer property.  pok: transport.create_producer returns (else raises).
producer_get(p, pf, pc, t, tc, tok, pok) ==
    IF p = None
    THEN LET tr == transport_get(t, tc, tok) IN
         IF tr.raised
         THEN [raised |-> TRUE, producer |-> None, from |-> pf, pcreated |-> pc,
               transport |-> tr.transport, tcreated |-> tr.tcreated]
         ELSE IF pok
         THEN [raised |-> FALSE, producer |-> pc + 1, from |-> tr.transport,
               pcreated |-> pc + 1,
               transport |-> tr.transport, tcreated |-> tr.tcreated]
         ELSE [raised |-> TRUE, producer |-> None, from |-> pf, pcreated |-> pc,
               transport |-> tr.transport, tcreated |-> tr.tcreated]
    ELSE [raised |-> FALSE, producer |-> p, from |-> pf, pcreated |-> pc,
          transport |-> t, tcreated |-> tc]

\* Assign the fields a producer access leaves behind.
SetProvisioned(r) ==
    /\ producer' = r.producer
    /\ producerFrom' = r.from
    /\ producersCreated' = r.pcreated
    /\ transport' = r.transport
    /\ transportsCreated' = r.tcreated

\* A caller reads app.transport.
AccessTransport ==
    \E tok \in Outcomes(transport) :
        LET r == transport_get(transport, transportsCreated, tok) IN
        /\ transport' = r.transport
        /\ transportsCreated' = r.tcreated
        /\ UNCHANGED <<producer, producerFrom, producersCreated,
                       regVars, sideVars, prodVars, sendVars, lcVars>>

\* A producer property that also starts the producer it hands out.
AccessProducerStarting ==
    \E tok \in Outcomes(transport), pok \in Outcomes(producer) :
        LET r == producer_get(producer, producerFrom, producersCreated,
                              transport, transportsCreated, tok, pok) IN
        /\ SetProvisioned(r)
        /\ IF ~r.raised /\ ~producerStarted
           THEN /\ producerStarted' = TRUE
                /\ startCalls' = startCalls + 1
                /\ startStatus' = "running"
           ELSE UNCHANGED prodVars
        /\ UNCHANGED <<regVars, sideVars, sendVars, lcVars>>

\* A caller reads app.producer.
AccessProducer ==
    \E tok \in Outcomes(transport), pok \in Outcomes(producer) :
        LET r == producer_get(producer, producerFrom, producersCreated,
                              transport, transportsCreated, tok, pok) IN
        /\ SetProvisioned(r)
        /\ UNCHANGED <<regVars, sideVars, prodVars, sendVars, lcVars>>

(* ---------------------------------------------------------------------- *)
(* Encoding of a message in send                                           *)
(* ---------------------------------------------------------------------- *)
\* Python values met while encoding: None, a str, a bytes, any other object,
\* and the raising of an exception by a collaborator.
PyNone == [t |-> "None", v |-> ""]
Str(v) == [t |-> "str", v |-> v]
Bytes(v) == [t |-> "bytes", v |-> v]
PyInt(v) == [t |-> "int", v |-> v]
Raise == [t |-> "raise", v |-> ""]

\* Truth value of x in `if x` / `x or y` / `x.encode() if x else None`.
Truthy(x) == x.t # "None" /\ x.v # ""

\* A topic descriptor, and what send may be given as its topic.
Topic(topics, key_serializer) ==
    [t |-> "Topic", topics |-> topics, key_serializer |-> key_serializer]
TopicArgs ==
    {Str("orders")}
    \cup {Topic(ts, ks) : ts \in {<<"a">>, <<"b", "a">>},
                          ks \in {PyNone, Str("json")}}
KeyArgs == {PyNone, Str(""), Str("k"), PyInt("7")}
SerializerArgs == {PyNone, Str("raw")}
\* what dumps(key_serializer, key) does, and what event.dumps() does
DumpsOutcomes == {Raise, Str(""), Str("null"), Str("k'")}
EventDumpsOutcomes == {Raise, PyNone, Str(""), Str("v"), Bytes("v")}
EncInputs ==
    [topic : TopicArgs, key : KeyArgs, key_serializer : SerializerArgs,
     dumped : DumpsOutcomes, value : EventDumpsOutcomes]

\* The serializer send settles on, ignoring the default of the descriptor.
effective_serializer_nodefault(topic, arg) == arg

\* The serializer send settles on for a topic and its key_serializer argument.
effective_serializer(topic, arg) ==
    IF topic.t = "Topic"
    THEN IF Truthy(arg) THEN arg ELSE topic.key_serializer
    ELSE arg

\* The topic name the message goes to.
strtopic(topic) == IF topic.t = "Topic" THEN topic.topics[1] ELSE topic.v

\* x.encode() if x else None, for an x whose encode exists (a str).
encode_or_none(x) == IF Truthy(x) THEN Bytes(x.v) ELSE PyNone

\* send up to the call of _send: the arguments _send is called with, or the
\* raising of an exception before that call.
send_encode(in) ==
    LET ks == effective_serializer(in.topic, in.key_serializer)
        called == Truthy(ks)
        key == IF called THEN in.dumped ELSE in.key
        value == in.value
        raised == \/ key = Raise
                  \/ value = Raise
                  \/ Truthy(key) /\ key.t # "str"
                  \/ Truthy(value) /\ value.t # "str"
    IN [raised |-> raised,
        serializer |-> ks,
        dumpsCalled |-> called,
        topic |-> IF raised THEN "" ELSE strtopic(in.topic),
        key |-> IF raised THEN PyNone ELSE encode_or_none(key),
        value |-> IF raised THEN PyNone ELSE encode_or_none(value)]

\* Whether the encoding part of a send can raise, can succeed.
SendEncodeRaised == {send_encode(in).raised : in \in EncInputs}

\* The encoding part of send applied to the arguments drawn at the start.
Encode ==
    /\ encOut = <<>>
    /\ encOut' = <<send_encode(encIn)>>
    /\ UNCHANGED <<encIn, nameVars, regVars, provVars, prodVars, sendVars, lcVars>>

(* ---------------------------------------------------------------------- *)
(* Publish pipeline                                                        *)
(* ---------------------------------------------------------------------- *)
\* The wait value _send runs with when send(..., wait=w) calls it: send
\* passes topic, key and value only, so _send falls back to its default.
WaitInSend(w) == DefaultWait

\* The producer operation _send selects for a wait value.
ProducerOp(wait) == IF wait THEN "send_and_wait" ELSE "send"

\* _send leaving the flag as it found it before awaiting producer.start().
FlagBeforeAwaitUnset(started) == started

\* Value of self._producer_started when _send suspends on producer.start().
FlagBeforeAwait(started) == TRUE

\* Hand the message of send s to the producer; status is what producer.start()
\* has done by then.
Dispatch(s, w, status) ==
    /\ sendOp' = [sendOp EXCEPT ![s] = ProducerOp(w)]
    /\ sendAt' = [sendAt EXCEPT ![s] = status]
    /\ sendPc' = [sendPc EXCEPT ![s] = "dispatch_wait"]
    /\ UNCHANGED sendResult

\* The coroutine of send s is over (result: "returned" or "raised") and its
\* frame is gone.
Leave(s, result) ==
    /\ sendPc' = [sendPc EXCEPT ![s] = "done"]
    /\ sendResult' = result
    /\ sendWait' = [sendWait EXCEPT ![s] = DefaultWait]
    /\ sendOp' = [sendOp EXCEPT ![s] = "none"]
    /\ sendAt' = [sendAt EXCEPT ![s] = "none"]

\* send reaching the producer property before it encodes the message.
EncodeRaisedAfterAccess(r) == SetProvisioned(r)

\* What send has done to the handles when its encoding raises: the encoding
\* comes before the call of _send, which is where self.producer is read.
EncodeRaised(r) == UNCHANGED provVars

\* send() up to its first suspension point: the encoding, the producer access,
\* the test of the started flag, and either the call of producer.start() or
\* the dispatch.
Send(s) ==
    \E w \in BOOLEAN, tok \in Outcomes(transport), pok \in Outcomes(producer),
       eraised \in SendEncodeRaised :
        LET r == producer_get(producer, producerFrom, producersCreated,
                              transport, transportsCreated, tok, pok) IN
        /\ sendPc[s] = "new"
        /\ \A q \in Sends : q < s => sendPc[q] # "new"
        /\ IF eraised
           THEN /\ EncodeRaised(r)
                /\ Leave(s, "encode_raised")
                /\ UNCHANGED prodVars
           ELSE /\ SetProvisioned(r)
                /\ IF r.raised
                   THEN /\ Leave(s, "raised")
                        /\ UNCHANGED prodVars
                   ELSE /\ sendWait' = [sendWait EXCEPT ![s] = w]
                        /\ IF ~producerStarted
                           THEN /\ producerStarted' = FlagBeforeAwait(producerStarted)
                                /\ startCalls' = startCalls + 1
                                /\ startStatus' = "running"
                                /\ sendPc' = [sendPc EXCEPT ![s] = "start_wait"]
                                /\ UNCHANGED <<sendResult, sendOp, sendAt>>
                           ELSE /\ Dispatch(s, WaitInSend(w), startStatus)
                                /\ UNCHANGED prodVars
        /\ UNCHANGED <<regVars, sideVars, lcVars>>

\* producer.start() returns to the send that awaited it, which dispatches.
StartReturns(s) ==
    /\ sendPc[s] = "start_wait"
    /\ startStatus' = "done"
    /\ Dispatch(s, WaitInSend(sendWait[s]), "done")
    /\ UNCHANGED <<producerStarted, startCalls, sendWait,
                   regVars, sideVars, provVars, lcVars>>

\* producer.start() raises and _send carries on to the dispatch.
StartRaisesSwallowed(s) ==
    /\ sendPc[s] = "start_wait"
    /\ startStatus' = "raised"
    /\ Dispatch(s, WaitInSend(sendWait[s]), "raised")
    /\ UNCHANGED <<producerStarted, startCalls, sendWait,
                   regVars, sideVars, provVars, lcVars>>

\* producer.start() raises and _send takes the started flag back.
StartRaisesResetsFlag(s) ==
    /\ sendPc[s] = "start_wait"
    /\ startStatus' = "raised"
    /\ producerStarted' = FALSE
    /\ Leave(s, "raised")
    /\ UNCHANGED <<startCalls, regVars, sideVars, provVars, lcVars>>

\* producer.start() raises: the error leaves _send and send.
StartRaises(s) ==
    /\ sendPc[s] = "start_wait"
    /\ startStatus' = "raised"
    /\ Leave(s, "raised")
    /\ UNCHANGED <<producerStarted, startCalls,
                   regVars, sideVars, provVars, lcVars>>

\* The awaited producer operation returns: send returns its result.
DispatchReturns(s) ==
    /\ sendPc[s] = "dispatch_wait"
    /\ Leave(s, "returned")
    /\ UNCHANGED <<regVars, sideVars, provVars, prodVars, lcVars>>

\* The awaited producer operation raises: send raises.
DispatchRaises(s) ==
    /\ sendPc[s] = "dispatch_wait"
    /\ Leave(s, "raised")
    /\ UNCHANGED <<regVars, sideVars, provVars, prodVars, lcVars>>

(* ---------------------------------------------------------------------- *)
(* Lifecycle controller                                                    *)
(* ---------------------------------------------------------------------- *)
Ev(e, s) == [ev |-> e, s |-> s]
NoErr == [by |-> "none", s |-> None]

\* The sweep coroutine suspends on a collaborator call.
Suspend(pc, idx, trace) ==
    /\ lcPc' = pc
    /\ lcIdx' = idx
    /\ lcTrace' = trace
    /\ lcResult' = "none"
    /\ lcErr' = NoErr
    /\ runs' = runs

\* The sweep coroutine returns or raises.
Finish(trace, result, err) ==
    /\ lcPc' = "idle"
    /\ lcIdx' = lcIdx
    /\ lcTrace' = trace
    /\ lcResult' = result
    /\ lcErr' = err
    /\ runs' = runs + 1

\* on_start up to its first suspension point.
OnStart ==
    /\ lcPc = "idle"
    /\ runs < MaxRuns
    /\ lcKind' = "start"
    /\ lcRegs' = streams
    /\ lcList' = streams
    /\ IF streams = <<>>
       THEN Finish(<<>>, "ok", NoErr)
       ELSE Suspend("start_wait", 1, <<Ev("start", streams[1])>>)
    /\ UNCHANGED <<regVars, sideVars, provVars, prodVars, sendVars>>

\* A stream's start raises and on_start goes on with the next stream.
StreamStartRaisesContinue ==
    /\ lcPc = "start_wait"
    /\ LET s  == lcList[lcIdx]
           tr == Append(lcTrace, Ev("start_raised", s)) IN
       IF lcIdx < Len(lcList)
       THEN Suspend("start_wait", lcIdx + 1,
                    Append(tr, Ev("start", lcList[lcIdx + 1])))
       ELSE Finish(tr, "raised", [by |-> "stream", s |-> s])
    /\ UNCHANGED <<lcKind, lcRegs, lcList,
                   regVars, sideVars, provVars, prodVars, sendVars>>

\* A stream's start raises: the error leaves on_start.
StreamStartRaises ==
    /\ lcPc = "start_wait"
    /\ LET s == lcList[lcIdx] IN
       Finish(Append(lcTrace, Ev("start_raised", s)), "raised",
              [by |-> "stream", s |-> s])
    /\ UNCHANGED <<lcKind, lcRegs, lcList,
                   regVars, sideVars, provVars, prodVars, sendVars>>

\* A stream's start returns: the loop over self._streams.values() advances.
\* The iterator is exhausted after the last entry it was created over; before
\* that, a registry that grew since makes the iterator raise RuntimeError.
StreamStartReturns ==
    /\ lcPc = "start_wait"
    /\ LET tr == Append(lcTrace, Ev("started", lcList[lcIdx])) IN
       IF lcIdx = Len(lcList)
       THEN Finish(tr, "ok", NoErr)
       ELSE IF Len(streams) # Len(lcList)
       THEN Finish(tr, "raised", [by |-> "iterator", s |-> None])
       ELSE Suspend("start_wait", lcIdx + 1,
                    Append(tr, Ev("start", lcList[lcIdx + 1])))
    /\ UNCHANGED <<lcKind, lcRegs, lcList,
                   regVars, sideVars, provVars, prodVars, sendVars>>

\* on_stop walking the registry in insertion order.
StopOrderForward(regs) == regs

\* reversed(list(self._streams.values()))
StopOrder(regs) == [i \in 1..Len(regs) |-> regs[Len(regs) + 1 - i]]

\* on_stop testing the started flag instead of the handle.
ShouldStopProducerIfStarted(p) == p # None /\ producerStarted

\* `if self._producer:`
ShouldStopProducer(p) == p # None

\* The tail of on_stop reading the producer property instead of the field.
StopProducerPartViaProperty(tr) ==
    LET r == producer_get(producer, producerFrom, producersCreated,
                          transport, transportsCreated, TRUE, TRUE) IN
    /\ SetProvisioned(r)
    /\ Suspend("producer_stop_wait", lcIdx, Append(tr, Ev("producer_stop", None)))

\* The tail of on_stop, after the loop: stop the producer if there is one.
StopProducerPart(tr) ==
    /\ UNCHANGED provVars
    /\ IF ShouldStopProducer(producer)
       THEN Suspend("producer_stop_wait", lcIdx,
                    Append(tr, Ev("producer_stop", None)))
       ELSE Finish(tr, "ok", NoErr)

\* on_stop up to its first suspension point.
OnStop ==
    /\ lcPc = "idle"
    /\ runs < MaxRuns
    /\ lcKind' = "stop"
    /\ lcRegs' = streams
    /\ lcList' = StopOrder(streams)
    /\ IF streams = <<>>
       THEN StopProducerPart(<<>>)
       ELSE /\ Suspend("stop_wait", 1, <<Ev("stop", StopOrder(streams)[1])>>)
            /\ UNCHANGED provVars
    /\ UNCHANGED <<regVars, sideVars, prodVars, sendVars>>

\* A stream's stop returns: next stream, or the producer after the last one.
StreamStopReturns ==
    /\ lcPc = "stop_wait"
    /\ LET tr == Append(lcTrace, Ev("stopped", lcList[lcIdx])) IN
       IF lcIdx < Len(lcList)
       THEN /\ Suspend("stop_wait", lcIdx + 1,
                       Append(tr, Ev("stop", lcList[lcIdx + 1])))
            /\ UNCHANGED provVars
       ELSE StopProducerPart(tr)
    /\ UNCHANGED <<lcKind, lcRegs, lcList, regVars, sideVars, prodVars, sendVars>>

\* A stream's stop raises and on_stop goes on with the rest of the sweep,
\* raising the error once the sweep is over.
StreamStopRaisesContinue ==
    /\ lcPc = "stop_wait"
    /\ LET s  == lcList[lcIdx]
           tr == Append(lcTrace, Ev("stop_raised", s)) IN
       IF lcIdx < Len(lcList)
       THEN Suspend("stop_wait", lcIdx + 1,
                    Append(tr, Ev("stop", lcList[lcIdx + 1])))
       ELSE Finish(tr, "raised", [by |-> "stream", s |-> s])
    /\ UNCHANGED <<lcKind, lcRegs, lcList,
                   regVars, sideVars, provVars, prodVars, sendVars>>

\* A stream's stop raises: the error leaves on_stop.
StreamStopRaises ==
    /\ lcPc = "stop_wait"
    /\ LET s == lcList[lcIdx] IN
       Finish(Append(lcTrace, Ev("stop_raised", s)), "raised",
              [by |-> "stream", s |-> s])
    /\ UNCHANGED <<lcKind, lcRegs, lcList,
                   regVars, sideVars, provVars, prodVars, sendVars>>

\* producer.stop() returns: on_stop returns.
ProducerStopReturns ==
    /\ lcPc = "producer_stop_wait"
    /\ Finish(Append(lcTrace, Ev("producer_stopped", None)), "ok", NoErr)
    /\ UNCHANGED <<lcKind, lcRegs, lcList,
                   regVars, sideVars, provVars, prodVars, sendVars>>

\* producer.stop() raises: the error leaves on_stop.
ProducerStopRaises ==
    /\ lcPc = "producer_stop_wait"
    /\ Finish(Append(lcTrace, Ev("producer_stop_raised", None)), "raised",
              [by |-> "producer", s |-> None])
    /\ UNCHANGED <<lcKind, lcRegs, lcList,
                   regVars, sideVars, provVars, prodVars, sendVars>>

(* ---------------------------------------------------------------------- *)
(* Name generator                                                          *)
(* ---------------------------------------------------------------------- *)
\* number of names generated in the process
MaxNames == 11
\* field width of '{1:010d}'
Width == 10

\* The application instances of the process, and the class App itself.
Apps == {1, 2}
AppClass == 0
\* The objects an `_index` attribute can live on.
IndexOwners == {AppClass} \cup Apps

\* Strings are sequences of character codes; Digit(d) is the character of
\* the decimal digit d.
Digit(d) == 48 + d
\* 's' and 's1'
Prefixes == {<<115>>, <<115, 49>>}

RECURSIVE Decimal(_)
\* 'd' format of a natural number: its decimal digits, no padding
Decimal(n) == IF n < 10 THEN <<Digit(n)>> ELSE Decimal(n \div 10) \o <<Digit(n % 10)>>

\* '010d': zero-padded on the left up to Width characters, never truncated
ZeroPad(d) == IF Len(d) >= Width THEN d ELSE [i \in 1..(Width - Len(d)) |-> Digit(0)] \o d

\* '{0}{1:d}'.format(prefix, n)
new_name_unpadded(prefix, n) == prefix \o Decimal(n)

\* '{0}{1:010d}'.format(prefix, n)
new_name(prefix, n) == prefix \o ZeroPad(Decimal(n))

\* self._index resolving to an attribute of the instance.
IndexOwnerInstance(a) == a

\* The object self._index resolves to for application a: _index is assigned
\* in the class body only, so every instance reads the attribute of the class.
IndexOwner(a) == AppClass

\* Application a calls _new_name(prefixOf[a]): next(self._index) and format.
NewName(a) ==
    LET o == IndexOwner(a) IN
    /\ Len(issued) < MaxNames
    /\ issued' = Append(issued, [app |-> a, name |-> new_name(prefixOf[a], index[o])])
    /\ index' = [index EXCEPT ![o] = @ + 1]
    /\ UNCHANGED <<prefixOf, encVars, regVars, provVars, prodVars, sendVars, lcVars>>

(* ---------------------------------------------------------------------- *)
(* Specifications                                                          *)
(* ---------------------------------------------------------------------- *)
\* No send is being encoded.
InitEncode ==
    /\ encIn = <<>>
    /\ encOut = <<>>

\* The counter of the class body, count(0); no name generated yet.
InitNames ==
    /\ index = [o \in IndexOwners |-> 0]
    /\ issued = <<>>

Init ==
    /\ InitApp
    /\ InitEncode
    /\ InitNames
    /\ prefixOf = [a \in Apps |-> <<>>]

Next ==
    \/ \E s \in StreamObjs : AddSource(s)
    \/ AccessTransport
    \/ AccessProducer
    \/ \E s \in Sends : Send(s)
    \/ \E s \in Sends : StartReturns(s)
    \/ \E s \in Sends : StartRaises(s)
    \/ \E s \in Sends : DispatchReturns(s)
    \/ \E s \in Sends : DispatchRaises(s)
    \/ OnStart
    \/ StreamStartReturns
    \/ StreamStartRaises
    \/ OnStop
    \/ StreamStopReturns
    \/ StreamStopRaises
    \/ ProducerStopReturns
    \/ ProducerStopRaises

\* The application: registry, provisioner, publish pipeline and sweeps.
Spec == Init /\ [][Next]_vars

\* The encoding part of send, over every combination of its arguments and of
\* what the serializers return.
EncInit ==
    /\ InitApp
    /\ InitNames
    /\ prefixOf = [a \in Apps |-> <<>>]
    /\ encIn \in EncInputs
    /\ encOut = <<>>

EncNext == Encode

EncSpec == EncInit /\ [][EncNext]_vars

\* The name generator called by the applications of one process, each with
\* a prefix of its own.
NameInit ==
    /\ InitApp
    /\ InitEncode
    /\ InitNames
    /\ prefixOf \in [Apps -> Prefixes]

NameNext == \E a \in Apps : NewName(a)

NameSpec == NameInit /\ [][NameNext]_vars

(* ---------------------------------------------------------------------- *)
(* Helpers of the properties                                               *)
(* ---------------------------------------------------------------------- *)
IsPrefix(a, b) == Len(a) <= Len(b) /\ \A i \in DOMAIN a : a[i] = b[i]

\* Positions of trace holding event e of stream s.
Positions(trace, e, s) == {i \in DOMAIN trace : trace[i] = Ev(e, s)}

\* Number of events e in trace, whatever the stream.
Count(trace, e) == Cardinality({i \in DOMAIN trace : trace[i].ev = e})

\* The sweep on_start owes a registry: each stream started, in order, the
\* start of one over before the next is called.
ExpectedStart(regs) ==
    [i \in 1..(2 * Len(regs)) |->
        IF i % 2 = 1 THEN Ev("start", regs[(i + 1) \div 2])
                     ELSE Ev("started", regs[i \div 2])]

\* The sweep on_stop owes a registry: last registered first.
ExpectedStop(regs) ==
    [i \in 1..(2 * Len(regs)) |->
        IF i % 2 = 1 THEN Ev("stop", regs[Len(regs) + 1 - ((i + 1) \div 2)])
                     ELSE Ev("stopped", regs[Len(regs) + 1 - (i \div 2)])]

\* No collaborator call of the sweep has raised, nor has the registry iterator.
NoFailure ==
    /\ lcErr.by = "none"
    /\ \A i \in DOMAIN lcTrace :
          lcTrace[i].ev \notin {"start_raised", "stop_raised", "producer_stop_raised"}

Finished == lcPc = "idle" /\ lcKind # "none"

\* Position of stream s in the registry regs (0 when absent).
IndexOf(regs, s) ==
    IF \E i \in DOMAIN regs : regs[i] = s
    THEN CHOOSE i \in DOMAIN regs : regs[i] = s
    ELSE 0

(* ---------------------------------------------------------------------- *)
(* Properties                                                              *)
(* ---------------------------------------------------------------------- *)

\* C1: however the sends interleave at their suspension points, the
\* producer's start operation is invoked at most once.
StartAtMostOnce == startCalls <= 1

\* Two sends are in flight at once, one still awaiting the start it issued.
StartAtMostOnceWitness ==
    \E a \in Sends, b \in Sends :
        /\ a # b
        /\ sendPc[a] = "start_wait"
        /\ sendPc[b] = "dispatch_wait"
        /\ startCalls = 1

\* C2: no send hands its message to the producer before the single producer
\* start has completed.
DispatchAfterStartCompleted ==
    \A s \in Sends : sendPc[s] = "dispatch_wait" => sendAt[s] = "done"

\* C3: with no failures, startup starts the streams registered when it began
\* in registration order, shutdown stops them in the exact reverse order, and
\* each start/stop is over before the next one is called.
SweepOrder ==
    NoFailure =>
        /\ lcKind = "start" =>
              /\ IsPrefix(lcTrace, ExpectedStart(lcRegs))
              /\ Finished => lcTrace = ExpectedStart(lcRegs)
        /\ lcKind = "stop" =>
              /\ \/ IsPrefix(lcTrace, ExpectedStop(lcRegs))
                 \/ IsPrefix(ExpectedStop(lcRegs), lcTrace)
              /\ Finished => IsPrefix(ExpectedStop(lcRegs), lcTrace)

\* A shutdown over three registered streams has finished without failure.
SweepOrderWitness ==
    /\ Finished
    /\ lcKind = "stop"
    /\ lcResult = "ok"
    /\ Len(lcRegs) = 3
    /\ runs = 2

WaitSelectsOperation ==
    \A s \in Sends :
        sendPc[s] = "dispatch_wait" =>
            sendOp[s] = (IF sendWait[s] THEN "send_and_wait" ELSE "send")

\* C6: at most one producer and one transport are ever constructed, and the
\* fields (which is what the accessors return) hold that one instance from
\* its construction on, also after the producer was stopped.
SingleInstances ==
    /\ producersCreated <= 1
    /\ transportsCreated <= 1
    /\ producer = (IF producersCreated = 0 THEN None ELSE 1)
    /\ transport = (IF transportsCreated = 0 THEN None ELSE 1)

\* The producer was stopped by a finished shutdown and a send is using it.
SingleInstancesWitness ==
    /\ Finished
    /\ lcKind = "stop"
    /\ Count(lcTrace, "producer_stopped") = 1
    /\ \E s \in Sends : sendPc[s] = "dispatch_wait"
    /\ producer = 1
    /\ transport = 1

\* C7: a shutdown in which nothing fails invokes the producer's stop exactly
\* once if a producer was ever created (started or not) and not at all
\* otherwise, and only after the stop of every registered stream is over.
ProducerStoppedOnceAfterStreams ==
    [][(lcKind' = "stop" /\ runs' = runs + 1 /\ lcResult' = "ok") =>
          /\ Count(lcTrace', "producer_stop") =
                (IF producersCreated' > 0 THEN 1 ELSE 0)
          /\ \A i \in DOMAIN lcTrace' :
                lcTrace'[i].ev = "producer_stop" =>
                    \A j \in DOMAIN lcRegs' :
                        \E q \in Positions(lcTrace', "stopped", lcRegs'[j]) : q < i
      ]_vars

\* A shutdown over two streams stopped a producer that was never started.
ProducerStoppedOnceAfterStreamsWitness ==
    /\ Finished
    /\ lcKind = "stop"
    /\ lcResult = "ok"
    /\ Len(lcRegs) >= 2
    /\ Count(lcTrace, "producer_stop") = 1
    /\ ~producerStarted

\* C8: no step of on_stop creates the producer or the transport, or changes
\* anything but the sweep; with no producer it calls nothing but stream stops.
ShutdownCreatesNothing ==
    [][(lcKind' = "stop" /\ lcVars' # lcVars) =>
          /\ provVars' = provVars
          /\ <<regVars, prodVars, sendVars>>' = <<regVars, prodVars, sendVars>>
          /\ producer = None =>
                \A i \in DOMAIN lcTrace' :
                    lcTrace'[i].ev \in {"stop", "stopped", "stop_raised"}
      ]_vars

\* A shutdown swept the registry and finished with both handles still absent.
ShutdownCreatesNothingWitness ==
    /\ Finished
    /\ lcKind = "stop"
    /\ lcResult = "ok"
    /\ Len(lcRegs) >= 1
    /\ lcTrace = ExpectedStop(lcRegs)
    /\ producer = None
    /\ transport = None

\* What the registration of a named stream s owes a registry regs: a refusal
\* that leaves it as it is when the name is taken, else s appended at the end.
RegisterOutcome(regs, s, result, after) ==
    IF \E i \in DOMAIN regs : StreamName(regs[i]) = StreamName(s)
    THEN after = regs /\ result = "ValueError"
    ELSE /\ result = "ok"
         /\ Len(after) = Len(regs) + 1
         /\ after[Len(after)] = s
         /\ \A i \in DOMAIN regs : after[i] = regs[i]

\* C9: registering a stream whose name is taken fails with the duplicate-name
\* error and leaves the registry as it was; a new name is appended at the end.
\* In every reachable registry add_source does so for every named stream,
\* and every step that touches the registry is such a registration.
RegisterUniqueNames ==
    /\ [](\A s \in StreamObjs \ {Nameless} :
            RegisterOutcome(streams, s, add_source(streams, s).result,
                            add_source(streams, s).streams))
    /\ [][regVars' # regVars =>
            \/ streams' = streams /\ addResult' = "AssertionError"
            \/ \E s \in StreamObjs \ {Nameless} :
                  RegisterOutcome(streams, s, addResult', streams')
        ]_vars

\* A registration was refused while another stream holds the name.
RegisterUniqueNamesWitness ==
    /\ addResult = "ValueError"
    /\ Len(streams) >= 2

\* C10: when a stream's start raises during startup, the error leaves
\* on_start: the streams registered after it are not started and none of the
\* streams started before it is stopped.
StartFailureAborts ==
    /\ lcKind = "start" =>
          \A i \in DOMAIN lcTrace :
              /\ lcTrace[i].ev \in {"start", "started", "start_raised"}
              /\ lcTrace[i].ev = "start_raised" =>
                    /\ i = Len(lcTrace)
                    /\ Finished
                    /\ lcResult = "raised"
                    /\ lcErr = [by |-> "stream", s |-> lcTrace[i].s]
    /\ (Finished /\ lcKind = "start" /\ lcErr.by = "stream") =>
          LET k == IndexOf(lcRegs, lcErr.s) IN
          /\ k > 0
          /\ lcResult = "raised"
          /\ \A i \in DOMAIN lcRegs :
                (Positions(lcTrace, "start", lcRegs[i]) # {}) <=> (i <= k)
          /\ lcTrace[Len(lcTrace)] = Ev("start_raised", lcErr.s)

\* The start of the middle stream of three raised.
StartFailureAbortsWitness ==
    /\ Finished
    /\ lcKind = "start"
    /\ lcErr.by = "stream"
    /\ Len(lcRegs) = 3
    /\ IndexOf(lcRegs, lcErr.s) = 2

(* ---------------------------------------------------------------------- *)
(* C11: the producer handle and the transport handle                       *)
(* ---------------------------------------------------------------------- *)
\* C11 as stated: in every reachable state the producer handle and the
\* transport handle are both absent or both present.
HandlesBothOrNeither == (producer = None) <=> (transport = None)

\* C11, amended: the producer handle is never present while the transport
\* handle is absent; the transport handle may be present on its own (after
\* a read of the transport property, or after a producer access whose
\* create_producer raised).
HandlesProducerNeedsTransport == ~(producer # None /\ transport = None)

\* The transport is present and the producer is absent, with the factory of
\* the transport called exactly once.
HandlesProducerNeedsTransportWitness ==
    /\ transport # None
    /\ producer = None
    /\ transportsCreated = 1

(* ---------------------------------------------------------------------- *)
(* C12: encoding of the key and of the value                               *)
(* ---------------------------------------------------------------------- *)
\* C12: the key serializer is applied only when a serializer is in effect
\* and a key is present; an absent key gives null key bytes whether or not
\* a serializer is in effect, and an absent value gives null value bytes.
KeyEncodingRule ==
    encOut # <<>> =>
        LET o == encOut[1] IN
        /\ o.dumpsCalled => (Truthy(o.serializer) /\ encIn.key # PyNone)
        /\ (encIn.key = PyNone /\ ~o.raised) => o.key = PyNone
        /\ (encIn.value = PyNone /\ ~o.raised) => o.value = PyNone

StartOnlyWithinSend ==
    /\ startCalls = 0
    /\ [][startCalls' # startCalls =>
            /\ startCalls' = startCalls + 1
            /\ startStatus' = "running"
            /\ \E s \in Sends :
                  /\ sendPc[s] = "new"
                  /\ sendPc'[s] = "start_wait"
                  /\ sendOp'[s] = "none"
                  /\ \A q \in Sends \ {s} : sendPc'[q] = sendPc[q]]_vars

\* A send awaits the only start invoked so far, its message not dispatched,
\* on a producer that an earlier read of the property or this send created.
StartOnlyWithinSendWitness ==
    /\ startCalls = 1
    /\ startStatus = "running"
    /\ producer # None
    /\ sendPc[1] = "start_wait"
    /\ sendOp[1] = "none"
    /\ \A q \in Sends \ {1} : sendPc[q] = "new"

(* ---------------------------------------------------------------------- *)
(* C15: a send that fails while encoding                                   *)
(* ---------------------------------------------------------------------- *)
\* C15: the step in which a send raises while encoding its key or value
\* invokes no producer operation and changes neither the started flag nor
\* the producer and transport handles: apart from the send being over,
\* the application is as it was.
EncodeFailureLeavesNoTrace ==
    [][\A s \in Sends :
          (sendPc[s] = "new" /\ sendPc'[s] = "done" /\ sendResult' = "encode_raised") =>
              /\ prodVars' = prodVars
              /\ provVars' = provVars
              /\ <<sendWait, sendOp, sendAt>>' = <<sendWait, sendOp, sendAt>>
              /\ sendOp[s] = "none"
              /\ \A q \in Sends \ {s} : sendPc'[q] = sendPc[q]
              /\ <<regVars, lcVars>>' = <<regVars, lcVars>>]_vars

\* The first send of a fresh application has raised while encoding: no
\* transport, no producer, the flag unset and start never invoked.
EncodeFailureLeavesNoTraceWitness ==
    /\ sendPc[1] = "done"
    /\ sendResult = "encode_raised"
    /\ \A q \in Sends \ {1} : sendPc[q] = "new"
    /\ producer = None
    /\ transport = None
    /\ ~producerStarted
    /\ startCalls = 0

(* ---------------------------------------------------------------------- *)
(* C16: producer.start() raising during a send                             *)
(* ---------------------------------------------------------------------- *)
\* C16: when producer.start() raises, the send that awaited it ends by
\* raising, with nothing handed to the producer by it, and start is not
\* invoked again in that step; no other send is touched.
StartErrorPropagates ==
    [][(startStatus = "running" /\ startStatus' = "raised") =>
          /\ startCalls' = startCalls
          /\ \E s \in Sends :
                /\ sendPc[s] = "start_wait"
                /\ sendOp[s] = "none"
                /\ sendPc'[s] = "done"
                /\ sendResult' = "raised"
                /\ sendOp'[s] = "none"
                /\ \A q \in Sends \ {s} :
                      sendPc'[q] = sendPc[q] /\ sendOp'[q] = sendOp[q]]_vars

\* The first send has ended by raising after the one start it invoked
\* raised, with no other send issued.
StartErrorPropagatesWitness ==
    /\ startStatus = "raised"
    /\ startCalls = 1
    /\ sendPc[1] = "done"
    /\ sendResult = "raised"
    /\ \A q \in Sends \ {1} : sendPc[q] = "new"

(* ---------------------------------------------------------------------- *)
(* C17: generated names                                                    *)
(* ---------------------------------------------------------------------- *)
\* a < b in the lexicographic order of strings
LexLess(a, b) ==
    \E i \in DOMAIN b :
        /\ \A j \in 1..(i - 1) : j <= Len(a) /\ a[j] = b[j]
        /\ i > Len(a) \/ a[i] < b[i]

\* C17: the names generated on one application, with its fixed prefix, are
\* pairwise distinct and lexicographically strictly increasing in call
\* order, whatever calls on other applications come in between.
NamesIncreasePerApp ==
    \A i, j \in DOMAIN issued :
        (i < j /\ issued[i].app = issued[j].app) =>
            /\ issued[i].name # issued[j].name
            /\ LexLess(issued[i].name, issued[j].name)

\* Both applications have generated names, and one of them the names of the
\* counter values 9 and 10, where the number of significant digits grows.
NamesIncreasePerAppWitness ==
    /\ Len(issued) >= 11
    /\ issued[1].app # issued[2].app
    /\ issued[10].app = issued[11].app
    /\ issued[10].name = new_name(prefixOf[issued[10].app], 9)
    /\ issued[11].name = new_name(prefixOf[issued[11].app], 10)
    /\ prefixOf[1] # prefixOf[2]

(* ---------------------------------------------------------------------- *)
(* C18: the owner of the name counter                                      *)
(* ---------------------------------------------------------------------- *)
\* the calls before call i that were made on the application of call i
EarlierOnSameApp(i) ==
    Cardinality({k \in 1..(i - 1) : issued[k].app = issued[i].app})

\* C18 as stated: the counter belongs to the application instance: a name
\* generated on one application does not move the counter of another, so
\* the k-th name of every application uses the value k - 1, the first one 0.
CounterPerInstance ==
    \A i \in DOMAIN issued :
        issued[i].name = new_name(prefixOf[issued[i].app], EarlierOnSameApp(i))

\* C18, amended: the counter is shared by all the applications of the
\* process: the k-th name generated in the process, on whichever
\* application, uses the value k - 1, and only the first of them uses 0.
CounterSharedByProcess ==
    /\ index[AppClass] = Len(issued)
    /\ \A i \in DOMAIN issued :
          issued[i].name = new_name(prefixOf[issued[i].app], i - 1)

\* The first name of the second application, generated after one name of
\* the first application, uses the value 1.
CounterSharedByProcessWitness ==
    /\ Len(issued) >= 2
    /\ issued[1].app = 1
    /\ issued[2].app = 2
    /\ issued[2].name = new_name(prefixOf[2], 1)
    /\ issued[2].name # new_name(prefixOf[2], 0)

(* ---------------------------------------------------------------------- *)
(* C19: the started flag                                                   *)
(* ---------------------------------------------------------------------- *)
\* C19: the started flag is set from the first invocation of start on and
\* no step clears it; a send issued while it is set invokes no start: it
\* hands its message to the producer in its first step, unless it raised
\* while encoding.
StartedFlagMonotonic ==
    /\ [](startCalls > 0 => producerStarted)
    /\ [][producerStarted =>
            /\ producerStarted'
            /\ startCalls' = startCalls
            /\ \A s \in Sends :
                  (sendPc[s] = "new" /\ sendPc'[s] # "new") =>
                      \/ sendPc'[s] = "dispatch_wait" /\ sendOp'[s] # "none"
                      \/ sendPc'[s] = "done" /\ sendResult' = "encode_raised"]_vars

\* After the only start raised and a shutdown stopped the producer, the flag
\* is still set and a send has its message with the producer.
StartedFlagMonotonicWitness ==
    /\ producerStarted
    /\ startCalls = 1
    /\ startStatus = "raised"
    /\ Finished
    /\ lcKind = "stop"
    /\ Count(lcTrace, "producer_stop") = 1
    /\ \E s \in Sends :
          /\ sendPc[s] = "dispatch_wait"
          /\ sendAt[s] = "raised"
          /\ sendOp[s] # "none"

(* ---------------------------------------------------------------------- *)
(* C20: the producer comes from the memoized transport                     *)
(* ---------------------------------------------------------------------- *)
\* C20: whenever the producer handle is present, the transport handle is
\* present and is the transport whose create_producer built the producer;
\* a transport handle, once present, is never cleared or replaced.
ProducerFromTransport ==
    /\ [](producer # None => (transport # None /\ producerFrom = transport))
    /\ [](producer = None => producerFrom = None)
    /\ [][transport # None => transport' = transport]_vars

\* A read of the producer property on an application that had neither
\* handle has made the transport and, from it, the producer; no send was
\* issued.
ProducerFromTransportWitness ==
    /\ producer # None
    /\ transport # None
    /\ producerFrom = transport
    /\ producersCreated = 1
    /\ transportsCreated = 1
    /\ \A s \in Sends : sendPc[s] = "new"

====
